---- MODULE Spec2Model ----
(***************************************************************************)
(* The App component of react-client/src/App.tsx: the worker-data reducer, *)
(* the worker's message handler that App installs on every render, and the *)
(* three context managers handed to the descendants.                       *)
(*                                                                         *)
(* React's part is modelled as React specifies it: dispatch and the set-   *)
(* state functions enqueue an update, and the next render folds the queued *)
(* reducer actions over the state in dispatch order, takes the last queued *)
(* value of a useState cell, and runs the body of App again, which assigns *)
(* dataWorker.onmessage a closure over the metadata of that render.        *)
(* A render may come right after a handler ran or after several did.       *)
(***************************************************************************)
EXTENDS Integers, Sequences, FiniteSets, TLC

VARIABLES
  state,              \* useReducer: the committed WorkerDataState
  pending,            \* useReducer: actions dispatched and not yet reduced
  metadata,           \* useState: the committed Metadata
  metadataUpdates,    \* useState: values passed to setMetadata, not yet committed
  dataStatus,         \* useState: the committed DataStatus
  dataStatusUpdates,  \* useState: values passed to setDataStatus, not yet committed
  onmessage,          \* dataWorker.onmessage: the handlers registered, each with
                      \* the metadata its closure captured
  console,            \* what console.log printed
  crashed,            \* the reducer threw while React rendered
  log,                \* history: what reached the component, in arrival order
  uiCalls,            \* history: how many calls the descendants made
  calls               \* the reducer called on its own: its arguments and results

vars == <<state, pending, metadata, metadataUpdates, dataStatus,
          dataStatusUpdates, onmessage, console, crashed, log, uiCalls, calls>>

appVars == <<pending, metadata, metadataUpdates, dataStatus, dataStatusUpdates,
             onmessage, console, crashed, log, uiCalls>>

-----------------------------------------------------------------------------
(* Bounds *)

\* worker messages delivered in one run
MaxMessages == 2
\* calls the descendants make through the context managers in one run
MaxUiCalls == 1
\* pieces a generated chunk string is concatenated from
MaxPieces == 2

-----------------------------------------------------------------------------
(* Strings of a chunk payload are sequences of characters, so that split   *)
(* works on them as String.prototype.split does.                           *)

DELIMITER_TOKEN ==
  <<"D", "E", "L", "I", "M", "I", "T", "E", "R", "_", "T", "O", "K", "E", "N">>

\* s[from..from+Len(sep)-1] = sep
MatchAt(s, from, sep) ==
  /\ from + Len(sep) - 1 <= Len(s)
  /\ \A k \in 1..Len(sep) : s[from + k - 1] = sep[k]

\* String.prototype.split with a non-empty string separator: p is where the
\* current piece starts, q the position scanned, acc the pieces so far.
RECURSIVE SplitFrom(_, _, _, _, _)
SplitFrom(s, sep, p, q, acc) ==
  IF q > Len(s)
    THEN Append(acc, SubSeq(s, p, Len(s)))
    ELSE IF MatchAt(s, q, sep)
      THEN SplitFrom(s, sep, q + Len(sep), q + Len(sep),
                     Append(acc, SubSeq(s, p, q - 1)))
      ELSE SplitFrom(s, sep, p, q + 1, acc)

\* split, with the empty pieces left out
splitNonEmpty(s, sep) ==
  SelectSeq(SplitFrom(s, sep, 1, 1, <<>>), LAMBDA piece : piece # <<>>)

split(s, sep) == SplitFrom(s, sep, 1, 1, <<>>)

\* payload.map((column) => column.split("DELIMITER_TOKEN"))
RECURSIVE SplitColumns(_)
SplitColumns(payload) ==
  IF payload = <<>> THEN <<>>
  ELSE <<split(Head(payload), DELIMITER_TOKEN)>> \o SplitColumns(Tail(payload))

-----------------------------------------------------------------------------
(* The reducer *)

\* match(...).run() with no matching pattern throws
Threw == [error |-> "no pattern matched"]

IsThrow(r) == "error" \in DOMAIN r

\* the reducer without the spread of state: the other fields start over
reducerNoSpread(s, action) ==
  LET fresh == [progress |-> 0, chunk |-> <<>>, header |-> <<>>, names |-> <<>>,
                result |-> ""]
  IN CASE action.type = "parsing" -> [fresh EXCEPT !.progress = action.payload.progress]
       [] action.type = "chunk"   -> [fresh EXCEPT !.chunk = SplitColumns(action.payload)]
       [] action.type = "header"  -> [fresh EXCEPT !.header = action.payload]
       [] action.type = "sumCol"  -> [fresh EXCEPT !.result = action.payload]
       [] action.type = "names"   -> [fresh EXCEPT !.names = action.payload]
       [] OTHER                   -> Threw

\* the reducer with a parsing case that returns the state as it is
reducerParsingIgnored(s, action) ==
  CASE action.type = "parsing" -> s
    [] action.type = "chunk"   -> [s EXCEPT !.chunk = SplitColumns(action.payload)]
    [] action.type = "header"  -> [s EXCEPT !.header = action.payload]
    [] action.type = "sumCol"  -> [s EXCEPT !.result = action.payload]
    [] action.type = "names"   -> [s EXCEPT !.names = action.payload]
    [] OTHER                   -> Threw

\* the reducer with a names case that stores the payload back to front
reducerNamesReversed(s, action) ==
  CASE action.type = "parsing" -> [s EXCEPT !.progress = action.payload.progress]
    [] action.type = "chunk"   -> [s EXCEPT !.chunk = SplitColumns(action.payload)]
    [] action.type = "header"  -> [s EXCEPT !.header = action.payload]
    [] action.type = "sumCol"  -> [s EXCEPT !.result = action.payload]
    [] action.type = "names"   ->
         [s EXCEPT !.names = [k \in 1..Len(action.payload) |->
                                action.payload[Len(action.payload) + 1 - k]]]
    [] OTHER                   -> Threw

\* the reducer with a header case that adds the payload to the old header
reducerHeaderMerged(s, action) ==
  CASE action.type = "parsing" -> [s EXCEPT !.progress = action.payload.progress]
    [] action.type = "chunk"   -> [s EXCEPT !.chunk = SplitColumns(action.payload)]
    [] action.type = "header"  -> [s EXCEPT !.header = s.header \o action.payload]
    [] action.type = "sumCol"  -> [s EXCEPT !.result = action.payload]
    [] action.type = "names"   -> [s EXCEPT !.names = action.payload]
    [] OTHER                   -> Threw

\* the reducer ending in otherwise(() => state) in place of run()
reducerOtherwiseState(s, action) ==
  CASE action.type = "parsing" -> [s EXCEPT !.progress = action.payload.progress]
    [] action.type = "chunk"   -> [s EXCEPT !.chunk = SplitColumns(action.payload)]
    [] action.type = "header"  -> [s EXCEPT !.header = action.payload]
    [] action.type = "sumCol"  -> [s EXCEPT !.result = action.payload]
    [] action.type = "names"   -> [s EXCEPT !.names = action.payload]
    [] OTHER                   -> s

\* the reducer with a parsing case that adds the payload to the progress
reducerProgressAdded(s, action) ==
  CASE action.type = "parsing" ->
         [s EXCEPT !.progress = s.progress + action.payload.progress]
    [] action.type = "chunk"   -> [s EXCEPT !.chunk = SplitColumns(action.payload)]
    [] action.type = "header"  -> [s EXCEPT !.header = action.payload]
    [] action.type = "sumCol"  -> [s EXCEPT !.result = action.payload]
    [] action.type = "names"   -> [s EXCEPT !.names = action.payload]
    [] OTHER                   -> Threw

reducer(s, action) ==
  CASE action.type = "parsing" -> [s EXCEPT !.progress = action.payload.progress]
    [] action.type = "chunk"   -> [s EXCEPT !.chunk = SplitColumns(action.payload)]
    [] action.type = "header"  -> [s EXCEPT !.header = action.payload]
    [] action.type = "sumCol"  -> [s EXCEPT !.result = action.payload]
    [] action.type = "names"   -> [s EXCEPT !.names = action.payload]
    [] OTHER                   -> Threw

\* the queue reduced from its newest action to its oldest
RECURSIVE ReduceNewestFirst(_, _)
ReduceNewestFirst(s, actions) ==
  IF actions = <<>> THEN s
  ELSE LET r == reducer(s, actions[Len(actions)])
       IN IF "error" \in DOMAIN r THEN r
          ELSE ReduceNewestFirst(r, SubSeq(actions, 1, Len(actions) - 1))

\* the queue of one render taken as one update: its newest action alone
ReduceOnlyLast(s, actions) ==
  IF actions = <<>> THEN s ELSE reducer(s, actions[Len(actions)])

\* React reduces the queued actions in dispatch order; a throw ends the render
RECURSIVE Reduce(_, _)
Reduce(s, actions) ==
  IF actions = <<>> THEN s
  ELSE LET r == reducer(s, Head(actions))
       IN IF IsThrow(r) THEN r ELSE Reduce(r, Tail(actions))

InitialState ==
  [progress |-> 0, chunk |-> <<>>, header |-> <<>>, names |-> <<>>, result |-> ""]

InitialMetadata ==
  [headerChecked |-> TRUE, headerCheckBoxDisabled |-> FALSE, selectedId |-> 0]

-----------------------------------------------------------------------------
(* What the worker sends and what the descendants pass in.  The worker and *)
(* the descendants are not part of App.tsx: these are the inputs.          *)

Message(type, payload) == [payload |-> payload, type |-> type]

Str(a, b) == <<a>> \o DELIMITER_TOKEN \o <<b>>

\* ["a#b", "c#d"] with DELIMITER_TOKEN for #
ExamplePayload == <<Str("a", "b"), Str("c", "d")>>

Pieces == {<<"a">>, <<"D">>, DELIMITER_TOKEN}

RECURSIVE StringsOf(_)
StringsOf(n) ==
  IF n = 0 THEN {<<>>}
  ELSE LET shorter == StringsOf(n - 1)
       IN shorter \cup {s \o piece : s \in shorter, piece \in Pieces}

ChunkStrings == StringsOf(MaxPieces)

ChunkPayloads ==
  {<<>>, ExamplePayload}
    \cup {<<x>> : x \in ChunkStrings}
    \cup {<<x, y>> : x \in ChunkStrings, y \in ChunkStrings}

ProgressValues == {0, 50, 100}
HeaderPayloads == {<<>>, <<"col1", "col2">>, <<"col2", "col1">>, <<"col1", "col1">>}
ResultPayloads == {"", "42", "7"}
NamesPayloads == {<<>>, <<"x", "y">>, <<"y", "x">>, <<"a">>}

\* the tags of the messages the handler does not know
UnexpectedTags == {"loaded"}

\* the states the reducer is called on, on its own
ReducerStates ==
  [progress : {0, 50},
   chunk : {<<>>, SplitColumns(ExamplePayload)},
   header : {<<>>, <<"col1", "col2">>},
   names : {<<>>, <<"x", "y">>},
   result : {"", "42"}]

\* the payloads the worker sends in a run of App; the worker reports a
\* progress of 0 to 100
WorkerProgress == {50, 100}
WorkerChunks == {ExamplePayload}
WorkerHeaders == {<<"col1", "col2">>, <<"col2", "col1">>}
WorkerResults == {"42"}
WorkerNames == {<<"x", "y">>}
WorkerFilters == {<<"a">>}

\* the names a descendant dispatches through setWorkerDataState
UiNames == {<<"y", "x">>}

DataStatusValues == {"Empty", "Other"}

-----------------------------------------------------------------------------
(* App *)

Init ==
  /\ state = InitialState
  /\ pending = <<>>
  /\ metadata = InitialMetadata
  /\ metadataUpdates = <<>>
  /\ dataStatus = "Empty"
  /\ dataStatusUpdates = <<>>
  /\ onmessage = <<[metadata |-> InitialMetadata]>>
  /\ console = <<>>
  /\ crashed = FALSE
  /\ log = <<>>
  /\ uiCalls = 0
  /\ calls = <<>>

DispatchedTags == {"chunk", "header", "parsing", "sumCol", "names"}

\* the handler with otherwise(dispatch): it hands the reducer every message
HandlerDispatchForwardsRest(data) ==
  CASE data.type \in DispatchedTags -> <<Message(data.type, data.payload)>>
    [] data.type = "addFilter"      -> <<Message("names", data.payload.names)>>
    [] OTHER                        -> <<data>>

\* what the handler dispatches for data
HandlerDispatch(data) ==
  CASE data.type \in DispatchedTags -> <<Message(data.type, data.payload)>>
    [] data.type = "addFilter"      -> <<Message("names", data.payload.names)>>
    [] OTHER                        -> <<>>

\* the handler with the addFilter case's setMetadata in the names case too
HandlerSetMetadataOnNames(closure, data) ==
  IF data.type \in {"addFilter", "names"}
    THEN <<[closure.metadata EXCEPT !.selectedId = closure.metadata.selectedId + 1]>>
    ELSE <<>>

\* what the handler passes to setMetadata for data; closure.metadata is the
\* metadata of the render that made the handler
HandlerSetMetadata(closure, data) ==
  IF data.type = "addFilter"
    THEN <<[closure.metadata EXCEPT !.selectedId = closure.metadata.selectedId + 1]>>
    ELSE <<>>

\* what the handler logs for data
HandlerLog(data) ==
  IF data.type \in DispatchedTags \cup {"addFilter"}
    THEN <<>>
    ELSE <<"Unexpected action">>

\* how many worker messages arrived
Delivered == Cardinality({i \in DOMAIN log : log[i].from = "worker"})

\* one run of the handler: the calls it makes
HandlerRun(closure, data) ==
  [dispatch |-> HandlerDispatch(data),
   setMetadata |-> HandlerSetMetadata(closure, data),
   log |-> HandlerLog(data)]

\* the message event runs every handler registered, in order
RECURSIVE RunHandlers(_, _)
RunHandlers(handlers, data) ==
  IF handlers = <<>>
    THEN [dispatch |-> <<>>, setMetadata |-> <<>>, log |-> <<>>]
    ELSE LET first == HandlerRun(Head(handlers), data)
             rest == RunHandlers(Tail(handlers), data)
         IN [dispatch |-> first.dispatch \o rest.dispatch,
             setMetadata |-> first.setMetadata \o rest.setMetadata,
             log |-> first.log \o rest.log]

\* addEventListener("message", handler) in place of the assignment
AddOnMessage(handlers, handler) == Append(handlers, handler)

\* dataWorker.onmessage = handler: the handler takes the place of the one
\* registered before
AssignOnMessage(handlers, handler) == <<handler>>

\* the worker's message event with data
OnMessage(data) ==
  /\ ~crashed
  /\ Delivered < MaxMessages
  /\ pending' = pending \o RunHandlers(onmessage, data).dispatch
  /\ metadataUpdates' = metadataUpdates \o RunHandlers(onmessage, data).setMetadata
  /\ console' = console \o RunHandlers(onmessage, data).log
  /\ log' = Append(log, [from |-> "worker", data |-> data])
  /\ UNCHANGED <<state, metadata, dataStatus, dataStatusUpdates, onmessage,
                 crashed, uiCalls, calls>>

\* metadataManager.setMetadata(input), called by a descendant
SetMetadata(input) ==
  /\ ~crashed
  /\ uiCalls < MaxUiCalls
  /\ metadataUpdates' = Append(metadataUpdates, input)
  /\ uiCalls' = uiCalls + 1
  /\ UNCHANGED <<state, pending, metadata, dataStatus, dataStatusUpdates,
                 onmessage, console, crashed, log, calls>>

\* dataStatusManager.setDataStatus(input), called by a descendant
SetDataStatus(input) ==
  /\ ~crashed
  /\ uiCalls < MaxUiCalls
  /\ dataStatusUpdates' = Append(dataStatusUpdates, input)
  /\ uiCalls' = uiCalls + 1
  /\ UNCHANGED <<state, pending, metadata, metadataUpdates, dataStatus,
                 onmessage, console, crashed, log, calls>>

\* a descendant that writes the names into the record itself
SetWorkerDataStateDirect(action) ==
  /\ ~crashed
  /\ uiCalls < MaxUiCalls
  /\ IF action.type = "names"
       THEN /\ state' = [state EXCEPT !.names = action.payload]
            /\ pending' = pending
       ELSE /\ state' = state
            /\ pending' = Append(pending, action)
  /\ log' = Append(log, [from |-> "ui", data |-> action])
  /\ uiCalls' = uiCalls + 1
  /\ UNCHANGED <<metadata, metadataUpdates, dataStatus, dataStatusUpdates,
                 onmessage, console, crashed, calls>>

\* workerDataManager.setWorkerDataState(action), called by a descendant
SetWorkerDataState(action) ==
  /\ ~crashed
  /\ uiCalls < MaxUiCalls
  /\ pending' = Append(pending, action)
  /\ log' = Append(log, [from |-> "ui", data |-> action])
  /\ uiCalls' = uiCalls + 1
  /\ UNCHANGED <<state, metadata, metadataUpdates, dataStatus,
                 dataStatusUpdates, onmessage, console, crashed, calls>>

Last(q, otherwise) == IF q = <<>> THEN otherwise ELSE q[Len(q)]

\* React renders App: the hooks return the updated values and the body of
\* App assigns dataWorker.onmessage again
Render ==
  /\ ~crashed
  /\ pending # <<>> \/ metadataUpdates # <<>> \/ dataStatusUpdates # <<>>
  /\ LET reduced == Reduce(state, pending)
     IN IF IsThrow(reduced)
          THEN /\ crashed' = TRUE
               /\ UNCHANGED <<state, pending, metadata, metadataUpdates,
                              dataStatus, dataStatusUpdates, onmessage>>
          ELSE /\ state' = reduced
               /\ pending' = <<>>
               /\ metadata' = Last(metadataUpdates, metadata)
               /\ metadataUpdates' = <<>>
               /\ dataStatus' = Last(dataStatusUpdates, dataStatus)
               /\ dataStatusUpdates' = <<>>
               /\ onmessage' = AssignOnMessage(onmessage,
                                  [metadata |-> Last(metadataUpdates, metadata)])
               /\ UNCHANGED crashed
  /\ UNCHANGED <<console, log, uiCalls, calls>>

\* the values a descendant passes to setMetadata: the metadata it read from
\* the context with one of the check-box fields changed
MetadataInputs ==
  {[metadata EXCEPT !.headerChecked = ~metadata.headerChecked],
   [metadata EXCEPT !.headerCheckBoxDisabled = ~metadata.headerCheckBoxDisabled]}

Next ==
  \/ \E p \in WorkerProgress : OnMessage(Message("parsing", [progress |-> p]))
  \/ \E c \in WorkerChunks : OnMessage(Message("chunk", c))
  \/ \E h \in WorkerHeaders : OnMessage(Message("header", h))
  \/ \E r \in WorkerResults : OnMessage(Message("sumCol", r))
  \/ \E n \in WorkerNames : OnMessage(Message("names", n))
  \/ \E n \in WorkerFilters : OnMessage(Message("addFilter", [names |-> n]))
  \/ \E tag \in UnexpectedTags : OnMessage(Message(tag, ""))
  \/ \E input \in MetadataInputs : SetMetadata(input)
  \/ \E input \in DataStatusValues : SetDataStatus(input)
  \/ \E n \in UiNames : SetWorkerDataState(Message("names", n))
  \/ \E n \in WorkerFilters : SetWorkerDataState(Message("addFilter", [names |-> n]))
  \/ Render

Spec == Init /\ [][Next]_vars

-----------------------------------------------------------------------------
(* The reducer on its own: called once on a state and an action, and once  *)
(* more with the same action on the state it returned.                     *)

Call(s, action) ==
  [action |-> action, before |-> s, after |-> reducer(s, action)]

ReducerInit ==
  /\ state \in ReducerStates
  /\ pending = <<>>
  /\ metadata = InitialMetadata
  /\ metadataUpdates = <<>>
  /\ dataStatus = "Empty"
  /\ dataStatusUpdates = <<>>
  /\ onmessage = <<[metadata |-> InitialMetadata]>>
  /\ console = <<>>
  /\ crashed = FALSE
  /\ log = <<>>
  /\ uiCalls = 0
  /\ calls = <<>>

CallReducer(action) ==
  /\ calls = <<>>
  /\ calls' = <<Call(state, action)>>
  /\ state' = IF IsThrow(reducer(state, action)) THEN state ELSE reducer(state, action)
  /\ UNCHANGED appVars

CallReducerAgain ==
  /\ Len(calls) = 1
  /\ ~IsThrow(calls[1].after)
  /\ calls' = Append(calls, Call(state, calls[1].action))
  /\ state' = reducer(state, calls[1].action)
  /\ UNCHANGED appVars

ReducerNext ==
  \/ \E p \in ProgressValues : CallReducer(Message("parsing", [progress |-> p]))
  \/ \E c \in ChunkPayloads : CallReducer(Message("chunk", c))
  \/ \E h \in HeaderPayloads : CallReducer(Message("header", h))
  \/ \E r \in ResultPayloads : CallReducer(Message("sumCol", r))
  \/ \E n \in NamesPayloads : CallReducer(Message("names", n))
  \/ \E n \in NamesPayloads : CallReducer(Message("addFilter", [names |-> n]))
  \/ \E tag \in UnexpectedTags : CallReducer(Message(tag, ""))
  \/ CallReducerAgain

ReducerSpec == ReducerInit /\ [][ReducerNext]_vars

-----------------------------------------------------------------------------
(* Vocabulary of the properties *)

Fields == {"progress", "chunk", "header", "names", "result"}

\* the field a tag of the reducer writes
FieldOf(tag) ==
  CASE tag = "parsing" -> "progress"
    [] tag = "chunk"   -> "chunk"
    [] tag = "header"  -> "header"
    [] tag = "sumCol"  -> "result"
    [] tag = "names"   -> "names"

RECURSIVE Join(_, _)
Join(row, sep) ==
  IF Len(row) = 0 THEN <<>>
  ELSE IF Len(row) = 1 THEN row[1]
  ELSE row[1] \o sep \o Join(Tail(row), sep)

Contains(s, sep) == \E k \in 1..Len(s) : MatchAt(s, k, sep)

\* a state the reducer was called on that differs from the initial one in
\* every field
AllFieldsSet(s) ==
  /\ s.progress = 50
  /\ s.chunk = SplitColumns(ExamplePayload)
  /\ s.header = <<"col1", "col2">>
  /\ s.names = <<"x", "y">>
  /\ s.result = "42"

-----------------------------------------------------------------------------
(* C1: for each of the five tags, the state the reducer returns differs    *)
(* from the state it was given in no field but the one of the tag, and the *)
(* value written there is the one the message alone determines: it is the  *)
(* same as when the reducer starts from the initial state.                 *)
C1_OnlyTheTagsFieldChanges ==
  \A i \in DOMAIN calls :
    LET c == calls[i] IN
      c.action.type \in DispatchedTags =>
        /\ ~IsThrow(c.after)
        /\ \A f \in Fields \ {FieldOf(c.action.type)} : c.after[f] = c.before[f]
        /\ c.after[FieldOf(c.action.type)]
             = reducer(InitialState, c.action)[FieldOf(c.action.type)]

C1_Witness ==
  /\ Len(calls) = 1
  /\ calls[1].action.type = "sumCol"
  /\ AllFieldsSet(calls[1].before)
  /\ calls[1].after.result = "7"

(* C2: a parsing message with progress p gives a state whose progress is p *)
(* and whose chunk, header, names and result are those of the state given. *)
C2_ParsingSetsProgress ==
  \A i \in DOMAIN calls :
    LET c == calls[i] IN
      c.action.type = "parsing" =>
        /\ ~IsThrow(c.after)
        /\ c.after.progress = c.action.payload.progress
        /\ c.after.chunk = c.before.chunk
        /\ c.after.header = c.before.header
        /\ c.after.names = c.before.names
        /\ c.after.result = c.before.result

C2_Witness ==
  /\ Len(calls) = 1
  /\ calls[1].action.type = "parsing"
  /\ calls[1].action.payload.progress = 100
  /\ AllFieldsSet(calls[1].before)
  /\ calls[1].after.progress = 100

(* C3: a chunk message with n strings gives a chunk of n rows in the same  *)
(* order; row i holds no delimiter, joins back to string i with the        *)
(* delimiter, and is the one-element row when string i has no delimiter;   *)
(* the example payload gives [[a, b], [c, d]]; nothing of the old chunk    *)
(* stays.                                                                  *)
C3_ChunkIsSplitPayload ==
  \A i \in DOMAIN calls :
    LET c == calls[i] IN
      c.action.type = "chunk" =>
        /\ ~IsThrow(c.after)
        /\ Len(c.after.chunk) = Len(c.action.payload)
        /\ \A r \in 1..Len(c.action.payload) :
             /\ Len(c.after.chunk[r]) >= 1
             /\ Join(c.after.chunk[r], DELIMITER_TOKEN) = c.action.payload[r]
             /\ \A k \in 1..Len(c.after.chunk[r]) :
                  ~Contains(c.after.chunk[r][k], DELIMITER_TOKEN)
             /\ ~Contains(c.action.payload[r], DELIMITER_TOKEN)
                  => c.after.chunk[r] = <<c.action.payload[r]>>
        /\ c.action.payload = ExamplePayload
             => c.after.chunk = << <<<<"a">>, <<"b">>>>, <<<<"c">>, <<"d">>>> >>

C3_Witness ==
  /\ Len(calls) = 1
  /\ calls[1].action.type = "chunk"
  /\ calls[1].before.chunk = SplitColumns(ExamplePayload)
  /\ calls[1].action.payload = <<DELIMITER_TOKEN \o <<"a">>, <<"D">> \o DELIMITER_TOKEN>>
  /\ calls[1].after.chunk = << <<<<>>, <<"a">>>>, <<<<"D">>, <<>>>> >>

(* C4: a header, sumCol or names message leaves its payload, as it is, in  *)
(* header, result or names.                                                *)
C4_PayloadOverwritesField ==
  \A i \in DOMAIN calls :
    LET c == calls[i] IN
      c.action.type \in {"header", "sumCol", "names"} =>
        /\ ~IsThrow(c.after)
        /\ c.after[FieldOf(c.action.type)] = c.action.payload

C4_Witness ==
  /\ Len(calls) = 1
  /\ calls[1].action.type = "names"
  /\ calls[1].before.names = <<"x", "y">>
  /\ calls[1].action.payload = <<"y", "x">>
  /\ calls[1].after.names = <<"y", "x">>

(* C7: the reducer called with a tag that is none of its five throws: it   *)
(* returns no state.                                                       *)
C7_UnknownTagThrows ==
  \A i \in DOMAIN calls :
    calls[i].action.type \notin DispatchedTags => IsThrow(calls[i].after)

C7_Witness ==
  /\ Len(calls) = 1
  /\ calls[1].action.type = "addFilter"
  /\ IsThrow(calls[1].after)

(* C10: the reducer called a second time with the same header message      *)
(* returns the state the first call returned.                              *)
C10_HeaderIdempotent ==
  (Len(calls) = 2 /\ calls[2].action.type = "header") =>
    /\ calls[2].before = calls[1].after
    /\ calls[2].after = calls[1].after

C10_Witness ==
  /\ Len(calls) = 2
  /\ calls[2].action.type = "header"
  /\ calls[1].before.header = <<"col1", "col2">>
  /\ calls[2].action.payload = <<"col2", "col1">>
  /\ calls[2].after.header = <<"col2", "col1">>

-----------------------------------------------------------------------------
(* Vocabulary of the properties of App *)

\* the step is the handler's run on a worker message of one of these tags
Handled(tags) ==
  /\ Len(log') = Len(log) + 1
  /\ log'[Len(log')].from = "worker"
  /\ log'[Len(log')].data.type \in tags

KnownTags == DispatchedTags \cup {"addFilter"}

OnlyWorkerMessages == \A i \in DOMAIN log : log[i].from = "worker"

\* the reducer's action a recognized worker message stands for
AsAction(data) ==
  IF data.type = "addFilter" THEN Message("names", data.payload.names) ELSE data

\* the left fold of the reducer over the worker messages msgs, unrecognized
\* ones skipped
RECURSIVE FoldLeft(_, _)
FoldLeft(s, msgs) ==
  IF msgs = <<>> THEN s
  ELSE IF Head(msgs).data.type \in KnownTags
    THEN FoldLeft(reducer(s, AsAction(Head(msgs).data)), Tail(msgs))
    ELSE FoldLeft(s, Tail(msgs))

\* the tags whose messages carry a value for field f
TagsOf(f) ==
  CASE f = "progress" -> {"parsing"}
    [] f = "chunk"    -> {"chunk"}
    [] f = "header"   -> {"header"}
    [] f = "result"   -> {"sumCol"}
    [] f = "names"    -> {"names", "addFilter"}

\* the value a message carries for its field
Carried(data) ==
  CASE data.type = "parsing"   -> data.payload.progress
    [] data.type = "chunk"     -> SplitColumns(data.payload)
    [] data.type = "addFilter" -> data.payload.names
    [] OTHER                   -> data.payload

\* the value the most recent message for field f carried, or the initial one
Latest(f) ==
  LET of == {i \in DOMAIN log : log[i].data.type \in TagsOf(f)}
  IN IF of = {} THEN InitialState[f]
     ELSE Carried(log[CHOOSE i \in of : \A j \in of : j <= i].data)

\* the metadata React holds: what the next render commits
HeldMetadata == Last(metadataUpdates, metadata)

\* the state React holds: what the next render commits
HeldState == Reduce(state, pending)

-----------------------------------------------------------------------------
(* C5: the handler's run on an addFilter message with names ns raises the  *)
(* selected id React holds by exactly 1 and makes the names React holds    *)
(* ns, with progress, chunk, header and result as they were.               *)
C5_AddFilterIncrementsSelectedId ==
  [][Handled({"addFilter"}) =>
       /\ HeldMetadata'.selectedId = HeldMetadata.selectedId + 1
       /\ IsThrow(HeldState) = IsThrow(HeldState')
       /\ ~IsThrow(HeldState) =>
            /\ HeldState'.names = log'[Len(log')].data.payload.names
            /\ \A f \in Fields \ {"names"} : HeldState'[f] = HeldState[f]]_vars

(* C6: the handler's run on a message of an unrecognized tag logs it and   *)
(* changes neither the worker-data state, nor what is dispatched, nor the  *)
(* metadata, nor the data status; the component goes on, with the same     *)
(* handler installed.                                                      *)
C6_UnknownTagDropped ==
  [][(Len(log') = Len(log) + 1
        /\ log'[Len(log')].from = "worker"
        /\ log'[Len(log')].data.type \notin KnownTags) =>
       /\ console' = Append(console, "Unexpected action")
       /\ UNCHANGED <<state, pending, metadata, metadataUpdates, dataStatus,
                      dataStatusUpdates, onmessage>>
       /\ ~crashed']_vars

\* an unrecognized message was dropped and the message after it was reduced
C6_Witness ==
  /\ Len(log) = 2
  /\ log[1].from = "worker" /\ log[1].data.type = "loaded"
  /\ log[2].from = "worker" /\ log[2].data.type = "parsing"
  /\ console = <<"Unexpected action">>
  /\ pending = <<>>
  /\ state.progress = 50
  /\ ~crashed

(* C8: once every worker message that arrived is reduced, each field holds *)
(* what the most recent message of its tag carried (for names: the most    *)
(* recent names or addFilter message), or its initial value when there was *)
(* none.                                                                   *)
C8_LastMessageWins ==
  (OnlyWorkerMessages /\ pending = <<>>) =>
    /\ ~crashed
    /\ \A f \in Fields : state[f] = Latest(f)

\* parsing{progress:50}, then header{payload:["col1","col2"]}
C8_Witness ==
  /\ Len(log) = 2
  /\ log[1].from = "worker" /\ log[1].data.type = "parsing"
  /\ log[2].from = "worker" /\ log[2].data.type = "header"
  /\ pending = <<>>
  /\ state.progress = 50
  /\ state.header = <<"col1", "col2">>

(* C9: once every worker message that arrived is handled and reduced, the  *)
(* worker-data state is the left fold of the reducer from the initial      *)
(* state over the messages in arrival order, addFilter taken as names and  *)
(* unrecognized tags skipped, however the renders fell between them.       *)
C9_StateIsFoldInArrivalOrder ==
  (OnlyWorkerMessages /\ pending = <<>>) =>
    /\ ~crashed
    /\ state = FoldLeft(InitialState, log)

\* two messages for the same field, the later one an addFilter
C9_Witness ==
  /\ Len(log) = 2
  /\ log[1].from = "worker" /\ log[1].data.type = "names"
  /\ log[2].from = "worker" /\ log[2].data.type = "addFilter"
  /\ pending = <<>>
  /\ state.names = <<"a">>

(* C11: exactly one handler is registered at any time, however many        *)
(* renders assigned it; the handler's run on a recognized message makes    *)
(* exactly one dispatch, of the action the message stands for, and exactly *)
(* one setMetadata call for addFilter and none for the other tags.         *)
C11_EachMessageHandledOnce ==
  /\ [](Len(onmessage) = 1)
  /\ [][Handled(KnownTags) =>
          /\ pending' = Append(pending, AsAction(log'[Len(log')].data))
          /\ log'[Len(log')].data.type = "addFilter"
               => Len(metadataUpdates') = Len(metadataUpdates) + 1
          /\ log'[Len(log')].data.type # "addFilter"
               => metadataUpdates' = metadataUpdates]_vars

\* a render assigned the handler again after an addFilter message, and the
\* names message after it was dispatched once
C11_Witness ==
  /\ Len(log) = 2
  /\ log[1].from = "worker" /\ log[1].data.type = "addFilter"
  /\ log[2].from = "worker" /\ log[2].data.type = "names"
  /\ metadata.selectedId = 1
  /\ state.names = <<"a">>
  /\ pending = <<Message("names", <<"x", "y">>)>>
  /\ Len(onmessage) = 1
  /\ onmessage[1].metadata.selectedId = 1

\* the reducer applied to the actions one after the other, up to a throw
RECURSIVE ApplyAll(_, _)
ApplyAll(s, actions) ==
  IF actions = <<>> \/ IsThrow(s) THEN s
  ELSE ApplyAll(reducer(s, Head(actions)), Tail(actions))

(* C12: a step that changes the worker-data state record is React reducing *)
(* the dispatched actions: the new record is the reducer applied to them   *)
(* in turn and to nothing else.  A descendant's setMetadata or             *)
(* setDataStatus call changes neither the record nor the dispatched        *)
(* actions, and its setWorkerDataState call only adds its action to them.  *)
C12_OnlyReducerChangesState ==
  [][/\ state' # state =>
          /\ pending # <<>>
          /\ ~IsThrow(ApplyAll(state, pending))
          /\ state' = ApplyAll(state, pending)
          /\ pending' = <<>>
     /\ (uiCalls' # uiCalls /\ log' = log) =>
          /\ state' = state
          /\ pending' = pending
     /\ (uiCalls' # uiCalls /\ log' # log) =>
          /\ state' = state
          /\ pending' = Append(pending, log'[Len(log')].data)]_vars

\* a descendant's names action, dispatched and then reduced
C12_Witness ==
  /\ Len(log) = 2
  /\ log[1].from = "worker" /\ log[1].data.type = "names"
  /\ log[2].from = "ui" /\ log[2].data.type = "names"
  /\ pending = <<>>
  /\ state.names = <<"y", "x">>

AddFilters ==
  Cardinality({i \in DOMAIN log :
                 log[i].from = "worker" /\ log[i].data.type = "addFilter"})

(* C14: with worker messages alone, once React has rendered all that was   *)
(* set, the selected id is the number of addFilter messages that arrived,  *)
(* however the renders fell between them.                                  *)
C14_SelectedIdCountsAddFilters ==
  (uiCalls = 0 /\ metadataUpdates = <<>> /\ pending = <<>>) =>
    metadata.selectedId = AddFilters

(* C15: the handler's run on an addFilter message leaves headerChecked and *)
(* headerCheckBoxDisabled as React held them just before, the values a     *)
(* descendant set since the last render included.                          *)
C15_AddFilterKeepsCheckBoxFields ==
  [][Handled({"addFilter"}) =>
       /\ HeldMetadata'.headerChecked = HeldMetadata.headerChecked
       /\ HeldMetadata'.headerCheckBoxDisabled
            = HeldMetadata.headerCheckBoxDisabled]_vars

====
